---- MODULE Spec2Model ----
(***************************************************************************)
(* A model of obsidian-scholar: the artifact pipeline of ObsidianScholar   *)
(* (src/src/obsidianScholar.ts) and the two modals that drive it           *)
(* (src/unnamed/part_000).                                                 *)
(*                                                                         *)
(* Text is a sequence of one-character strings.  The vault is a partial    *)
(* function from paths to file contents.  Every awaited I/O call of the    *)
(* code is one action of the model, so that the continuations of           *)
(* concurrent invocations interleave exactly at the awaits.                *)
(***************************************************************************)
EXTENDS Integers, Sequences, FiniteSets, TLC

(***************************************************************************)
(* Bounds of the model.                                                    *)
(***************************************************************************)
\* number of downloadAndSavePaperNotePDF invocations
MaxInv == 2
\* number of createNoteFromUrlModal instances
MaxModals == 1
\* number of searchSemanticScholarWithDelay calls
MaxCalls == 3
\* number of one-millisecond clock steps the search clock may take
MaxTicks == 2
\* number of notes the vault holds under NoteLocation before the plugin runs
MaxNotes == 2

(***************************************************************************)
(* Text helpers.                                                           *)
(***************************************************************************)
NL == "\n"

\* String.prototype.includes
Includes(text, sub) ==
    \E k \in 0..(Len(text) - Len(sub)) : SubSeq(text, k + 1, k + Len(sub)) = sub

\* number of (possibly overlapping) occurrences of sub in text
Occurrences(text, sub) ==
    Cardinality({k \in 0..(Len(text) - Len(sub)) :
                    SubSeq(text, k + 1, k + Len(sub)) = sub})

\* String.prototype.replace(/pat/g, rep) for a literal pattern: every
\* occurrence, left to right, the inserted text is not scanned again.
\* (The texts of the model hold no "$", so the patterns $&, $1, ... of a
\* replacement string do not arise.)
RECURSIVE ReplaceAll(_, _, _)
ReplaceAll(s, pat, rep) ==
    LET at == {k \in 1..(Len(s) - Len(pat) + 1) : SubSeq(s, k, k + Len(pat) - 1) = pat}
        k  == CHOOSE k \in at : \A l \in at : k <= l
    IN  IF Len(pat) = 0 \/ at = {} THEN s
        ELSE SubSeq(s, 1, k - 1) \o rep
             \o ReplaceAll(SubSeq(s, k + Len(pat), Len(s)), pat, rep)

\* String.prototype.replace("pat", rep) with a string pattern: the first
\* occurrence only.
ReplaceFirst(s, pat, rep) ==
    LET at == {k \in 1..(Len(s) - Len(pat) + 1) : SubSeq(s, k, k + Len(pat) - 1) = pat}
        k  == CHOOSE k \in at : \A l \in at : k <= l
    IN  IF Len(pat) = 0 \/ at = {} THEN s
        ELSE SubSeq(s, 1, k - 1) \o rep \o SubSeq(s, k + Len(pat), Len(s))

\* Array.prototype.join
RECURSIVE Join(_, _)
Join(parts, sep) ==
    IF Len(parts) = 0 THEN <<>>
    ELSE IF Len(parts) = 1 THEN parts[1]
    ELSE parts[1] \o sep \o Join(Tail(parts), sep)

\* the placeholder {{name}}
Token(name) == <<"{", "{">> \o name \o <<"}", "}">>

(***************************************************************************)
(* StructuredPaperData records the pipeline is run on.                     *)
(***************************************************************************)
\* the characters the regular expression /[^a-zA-Z0-9 ]/ leaves in place
FileNameChars == {"A", "B", "a", "b", "0", "1", " "}

Paper(title, pdfUrl, bibtex) ==
    [title |-> title, authors |-> << <<"X">> >>, abstract |-> <<"s">>,
     url |-> <<"w">>, pdfUrl |-> pdfUrl, pdfPath |-> <<>>, venue |-> <<>>,
     publicationDate |-> <<>>, tags |-> <<>>, citekey |-> <<>>,
     bibtex |-> bibtex]

\* Two papers whose titles differ only in punctuation, and one paper that
\* has neither a pdf url nor a BibTeX entry.
Papers ==
    { Paper(<<"A">>, <<"u">>, <<"a">>),
      Paper(<<"A", "!">>, <<"v">>, <<"b">>),
      Paper(<<"B">>, <<>>, <<>>) }

NoPaper == Paper(<<>>, <<>>, <<>>)

RECURSIVE KeepChars(_, _)
KeepChars(s, keep) ==
    IF Len(s) = 0 THEN <<>>
    ELSE (IF Head(s) \in keep THEN <<Head(s)>> ELSE <<>>)
         \o KeepChars(Tail(s), keep)

constructFileName(paperData) == KeepChars(paperData.title, FileNameChars)

(***************************************************************************)
(* Template Renderer: createFileWithTemplate.                              *)
(***************************************************************************)
\* getDate of ./utility: every format letter is shown as a digit of the
\* clock, any other character of the format is kept.
getDate(format) ==
    [k \in 1..Len(format) |->
        IF format[k] \in {"Y", "M", "D", "H", "m"} THEN "1" ELSE format[k]]

DateFormat == <<"Y", "-", "M">>
TimeFormat == <<"H", ":", "m">>

\* length of the shortest run of non-newline characters at the head of s
\* that is followed by "}}", or -1 when there is none: the group (.*?)
RECURSIVE LazyGroup(_, _)
LazyGroup(s, k) ==
    IF Len(s) < k + 2 THEN -1
    ELSE IF SubSeq(s, k + 1, k + 2) = <<"}", "}">> THEN k
    ELSE IF s[k + 1] = NL THEN -1
    ELSE LazyGroup(s, k + 1)

\* template.replace(/{{name:(.*?)}}/g, (_, format) => getDate({ format }))
RECURSIVE ReplaceFormatted(_, _)
ReplaceFormatted(s, name) ==
    LET open == <<"{", "{">> \o name \o <<":">>
        after(k) == SubSeq(s, k + Len(open), Len(s))
        at   == {k \in 1..(Len(s) - Len(open) + 1) :
                    /\ SubSeq(s, k, k + Len(open) - 1) = open
                    /\ LazyGroup(after(k), 0) >= 0}
        k    == CHOOSE k \in at : \A l \in at : k <= l
        rest == after(k)
        g    == LazyGroup(rest, 0)
    IN  IF at = {} THEN s
        ELSE SubSeq(s, 1, k - 1) \o getDate(SubSeq(rest, 1, g))
             \o ReplaceFormatted(SubSeq(rest, g + 3, Len(rest)), name)

OneLine(value) == ReplaceFirst(value, <<NL>>, <<" ">>)

RenderTimeTokens(template) ==
    LET t1 == ReplaceAll(template, Token(<<"d", "a", "t", "e">>), getDate(DateFormat))
        t2 == ReplaceAll(t1, Token(<<"t", "i", "m", "e">>), getDate(TimeFormat))
        t3 == ReplaceFormatted(t2, <<"d", "a", "t", "e">>)
    IN  ReplaceFormatted(t3, <<"t", "i", "m", "e">>)

RenderMetadataTokens(template, paperData) ==
    LET t1 == ReplaceAll(template, Token(<<"t", "i", "t", "l", "e">>),
                         OneLine(paperData.title))
        t2 == ReplaceAll(t1, Token(<<"a", "u", "t", "h", "o", "r", "s">>),
                         OneLine(Join(paperData.authors, <<",", " ">>)))
        t3 == ReplaceAll(t2, Token(<<"a", "b", "s", "t", "r", "a", "c", "t">>),
                         OneLine(paperData.abstract))
        t4 == ReplaceAll(t3, Token(<<"u", "r", "l">>),
                         IF paperData.url # <<>> THEN OneLine(paperData.url) ELSE <<>>)
        t5 == ReplaceAll(t4, Token(<<"v", "e", "n", "u", "e">>),
                         IF paperData.venue # <<>> THEN OneLine(paperData.venue) ELSE <<>>)
        t6 == ReplaceAll(t5, Token(<<"p", "u", "b", "l", "i", "c", "a", "t", "i", "o", "n",
                                     "D", "a", "t", "e">>),
                         IF paperData.publicationDate # <<>>
                         THEN OneLine(paperData.publicationDate) ELSE <<>>)
    IN  ReplaceAll(t6, Token(<<"t", "a", "g", "s">>), Join(paperData.tags, <<",", " ">>))

\* lines 77-83: the text that is substituted for the token of a field
MetadataValue(paperData, field) ==
    CASE field = "title" -> OneLine(paperData.title)
      [] field = "authors" -> OneLine(Join(paperData.authors, <<",", " ">>))
      [] field = "abstract" -> OneLine(paperData.abstract)
      [] field = "tags" -> Join(paperData.tags, <<",", " ">>)
      [] OTHER -> IF paperData[field] # <<>> THEN OneLine(paperData[field]) ELSE <<>>

\* as RenderPdfAndCitekey, without the replacement of {{pdf}}
RenderPdfAndCitekey_NoPdf(template, paperData) ==
    IF paperData.citekey # <<>>
    THEN ReplaceAll(template, Token(<<"c", "i", "t", "e", "k", "e", "y">>), paperData.citekey)
    ELSE template

RenderPdfAndCitekey(template, paperData) ==
    LET t1 == ReplaceAll(template, Token(<<"p", "d", "f">>),
                         IF paperData.pdfPath # <<>>
                         THEN <<"[", "[">> \o paperData.pdfPath \o <<"]", "]">>
                         ELSE <<>>)
    IN  IF paperData.citekey # <<>>
        THEN ReplaceAll(t1, Token(<<"c", "i", "t", "e", "k", "e", "y">>), paperData.citekey)
        ELSE t1

\* the substitutions of createFileWithTemplate, in the order of the code
Render(template, paperData) ==
    RenderPdfAndCitekey(
        RenderMetadataTokens(RenderTimeTokens(template), paperData), paperData)

(***************************************************************************)
(* State.                                                                  *)
(***************************************************************************)
VARIABLES
    files,      \* app.vault: path -> content, for the paths that exist
    settings,   \* ObsidianScholar.settings (obsidianScholar.ts 8)
    notices,    \* the notices shown so far: <<who, number, text>>
    inv,        \* the downloadAndSavePaperNotePDF invocations: the paper
                \* (with its pdfPath), where the function stands (pc), the
                \* promises of downloadPdf (dl), createFileFromPaperData
                \* (note), saveBibTex (bib) and vault.append (app), the
                \* rendered template, the files opened
    hist,       \* history of each invocation, read by the properties only:
                \* requests sent, results of the two exists checks, whether
                \* the network or the disk failed, the invocations settled
                \* before it began, the paths it wrote, its caller
    modal,      \* the createNoteFromUrlModal instances: open, running
                \* (part_000 363), the fetch promise, fetches made,
                \* invocations started, whether the fetch failed
    now, ticks, \* Date.now() of the search modal, and the 1 ms steps taken
    lastSearchTime, lastSearch, lastSearchResults, \* part_000 116-119
    call,       \* the searchSemanticScholarWithDelay calls: state, query,
                \* timestamp, and (history) whether newer input followed
                \* while the call waited for its delay
    metadataCache,  \* app.metadataCache: path of a note -> its front-matter
    reads,          \* the getPaperDataFromLocalFile calls made: path -> result
    allLocal,       \* the promise getAllLocalPaperData has returned
    localPaperData, \* paperSearchModal.localPaperData (part_000 120), and
                    \* whether the constructor has run or thrown
    draft       \* a createFileFromPaperData call up to line 99: its
                \* paperData, and the template createFileWithTemplate returned

\* the variables of the Local Note Reader and of the renderer under test
noteVars == <<metadataCache, reads, allLocal, localPaperData, draft>>
\* what the search steps leave alone, and what the pipeline steps leave alone
pipelineVars == <<files, settings, notices, inv, hist, modal, noteVars>>
searchVars == <<now, ticks, lastSearchTime, lastSearch, lastSearchResults, call,
                noteVars>>
vars == <<files, settings, notices, inv, hist, modal,
          now, ticks, lastSearchTime, lastSearch, lastSearchResults, call,
          metadataCache, reads, allLocal, localPaperData, draft>>

Inv == 1..MaxInv
Modals == 1..MaxModals
Calls == 1..MaxCalls

pathSep == <<"/">>
BibTexFile == <<"r", ".bib">>
TemplateFile == <<"t", ".md">>

\* pdfSavePath of downloadPdf
PdfSavePath(filename) ==
    settings.pdfDownloadLocation \o pathSep \o filename \o <<".pdf">>

\* pathToFile of downloadAndSavePaperNotePDF
NotePath(paperData) ==
    settings.NoteLocation \o pathSep \o constructFileName(paperData) \o <<".md">>

\* the bytes the server sends for a pdf url
PdfBytes(pdfUrl) == <<"%PDF">> \o pdfUrl

\* app.vault.adapter.exists, and app.vault.getAbstractFileByPath(...) != null
Exists(path) == path \in DOMAIN files

\* NOTE_TEMPLATE_DEFAULT of ./constants
NOTE_TEMPLATE_DEFAULT ==
    Token(<<"t", "i", "t", "l", "e">>) \o <<NL>> \o Token(<<"p", "d", "f">>)

\* the text a user keeps in the template file
UserTemplate ==
    <<"#">> \o Token(<<"t", "i", "t", "l", "e">>) \o <<":">> \o Token(<<"p", "d", "f">>)

\* the text of the BibTeX file before the plugin is used
OldBibText == <<"x", NL>>

NoInvocation ==
    [paperData |-> NoPaper, pc |-> "idle", dl |-> "none", note |-> "none",
     bib |-> "none", app |-> "none", template |-> <<>>, opened |-> {}]

NoHistory ==
    [netReqs |-> 0, pdfExisted |-> "?", noteExisted |-> "?", fault |-> FALSE,
     after |-> {}, writes |-> {}, by |-> <<"nobody", 0>>]

NewModal == [open |-> FALSE, running |-> FALSE, fetch |-> "none", fetches |-> 0,
             started |-> 0, failed |-> FALSE]

NoCall == [state |-> "none", query |-> <<>>, timestamp |-> 0, overtaken |-> FALSE]

Settings(saveBibTex, bibTexFileLocation, openPdfAfterDownload) ==
    [NoteLocation |-> <<"n">>, pdfDownloadLocation |-> <<"p">>,
     templateFileLocation |-> TemplateFile, saveBibTex |-> saveBibTex,
     bibTexFileLocation |-> bibTexFileLocation,
     openPdfAfterDownload |-> openPdfAfterDownload]

\* a vault that holds the given files and no note or pdf yet
Vault(paths) ==
    [p \in paths |-> IF p = BibTexFile THEN OldBibText ELSE UserTemplate]

\* The settings and vaults the plugin is started with: BibTeX saved into
\* an existing file; the BibTeX file missing; the BibTeX location unset;
\* BibTeX saving switched off.
Configurations ==
    { [settings |-> Settings(TRUE, BibTexFile, FALSE), files |-> Vault({BibTexFile})],
      [settings |-> Settings(TRUE, BibTexFile, TRUE), files |-> Vault({TemplateFile})],
      [settings |-> Settings(TRUE, <<>>, TRUE),
       files |-> Vault({BibTexFile, TemplateFile})],
      [settings |-> Settings(FALSE, BibTexFile, FALSE),
       files |-> Vault({BibTexFile, TemplateFile})] }

\* no note is indexed, the reader has not run, nothing is being rendered
NoLocalPaperData == [state |-> "none", results |-> <<>>]
NoPromise == [state |-> "none", value |-> <<>>]
NoDraft == [paperData |-> NoPaper, template |-> <<>>, state |-> "none"]

NoNotes ==
    /\ metadataCache = <<>>
    /\ reads = <<>>
    /\ allLocal = NoPromise
    /\ localPaperData = NoLocalPaperData
    /\ draft = NoDraft

\* the plugin after onload, the modals not opened yet
PluginInit ==
    /\ notices = {}
    /\ inv = [i \in Inv |-> NoInvocation]
    /\ hist = [i \in Inv |-> NoHistory]
    /\ modal = [m \in Modals |-> NewModal]
    /\ now = 0
    /\ ticks = 0
    /\ lastSearchTime = 0
    /\ lastSearch = <<>>
    /\ lastSearchResults = <<>>
    /\ call = [c \in Calls |-> NoCall]

Init ==
    /\ \E c \in Configurations : files = c.files /\ settings = c.settings
    /\ PluginInit
    /\ NoNotes

(***************************************************************************)
(* Notices (./constants and literals of the code).                         *)
(***************************************************************************)
FILE_ALREADY_EXISTS == "FILE_ALREADY_EXISTS"
NO_PDF_URL == "No pdf url found. You might need to find the PDF manually."
BIBTEX_LOCATION_NOT_SET == "BibTex location is not set in the settings."
BIBTEX_ALREADY_EXISTS == "BibTex entry already exists."
BIBTEX_NOT_FOUND == "BibTex file not found."
BIBTEX_SAVED == "BibTex entry saved."
BIBTEX_ERROR == "Error: "
NOTICE_PAPER_NOTE_DOWNLOAD_ERROR == "NOTICE_PAPER_NOTE_DOWNLOAD_ERROR"
NOTICE_RETRIEVING_ARXIV == "NOTICE_RETRIEVING_ARXIV"
NOTICE_RETRIEVING_S2 == "NOTICE_RETRIEVING_S2"
INVALID_URL == "Invalid URL"
DOWNLOAD_FROM_S2 == "Download Paper From S2"

(***************************************************************************)
(* downloadAndSavePaperNotePDF: entry.                                     *)
(***************************************************************************)
Settled(i) == inv[i].pc \in {"returned", "threw"}

\* downloadPdf up to its first await
CallDownloadPdf(pdfUrl) == IF pdfUrl = <<>> THEN "rejected" ELSE "exists"

\* the invocation record after the synchronous head of
\* downloadAndSavePaperNotePDF
Entered(paperData) ==
    IF paperData.pdfUrl = <<>>
    THEN [NoInvocation EXCEPT !.paperData = paperData, !.pc = "note",
                              !.note = "template"]
    ELSE [NoInvocation EXCEPT !.paperData = paperData, !.pc = "download",
                              !.dl = CallDownloadPdf(paperData.pdfUrl)]

\* invocation i starts on paperData, called by who; said are the notices
\* of the caller
BeginPipeline(i, paperData, who, said) ==
    /\ inv[i].pc = "idle"
    /\ \A j \in Inv : j < i => inv[j].pc # "idle"
    /\ inv' = [inv EXCEPT ![i] = Entered(paperData)]
    /\ hist' = [hist EXCEPT ![i].after = {j \in Inv : Settled(j)}, ![i].by = who]
    /\ notices' = notices \cup said \cup
                  (IF paperData.pdfUrl = <<>> THEN {<<"inv", i, NO_PDF_URL>>} ELSE {})
    /\ UNCHANGED <<files, settings>>

\* paperSearchModal.onChooseSuggestion, a Semantic Scholar result
ChooseSuggestion(i, paperData) ==
    /\ IF paperData.url # <<>>
       THEN BeginPipeline(i, paperData, <<"search", 0>>,
                          {<<"search", 0, DOWNLOAD_FROM_S2>>})
       ELSE /\ notices' = notices \cup {<<"search", 0, "S2 URL not found">>}
            /\ UNCHANGED <<files, settings, inv, hist>>
    /\ UNCHANGED <<modal, searchVars>>

(***************************************************************************)
(* downloadPdf.                                                            *)
(***************************************************************************)
\* line 137: if (await this.app.vault.adapter.exists(pdfSavePath))
PdfSkipsDownload_NoCheck(path) == FALSE
PdfSkipsDownload(path) == Exists(path)

\* adapter.exists(pdfSavePath) returns
DownloadExists(i) ==
    LET r == inv[i]
        path == PdfSavePath(constructFileName(r.paperData))
    IN  /\ r.dl = "exists"
        /\ IF PdfSkipsDownload(path)
           THEN /\ inv' = [inv EXCEPT ![i].dl = "resolved"]
                /\ hist' = [hist EXCEPT ![i].pdfExisted =
                                IF Exists(path) THEN "yes" ELSE "no"]
           ELSE /\ inv' = [inv EXCEPT ![i].dl = "request"]
                /\ hist' = [hist EXCEPT ![i].pdfExisted =
                                IF Exists(path) THEN "yes" ELSE "no",
                                        ![i].netReqs = @ + 1]
        /\ UNCHANGED <<files, settings, notices, modal, searchVars>>

\* requestUrl(...).arrayBuffer settles
DownloadResponse(i, ok) ==
    /\ inv[i].dl = "request"
    /\ inv' = [inv EXCEPT ![i].dl = IF ok THEN "createBinary" ELSE "rejected"]
    /\ hist' = [hist EXCEPT ![i].fault = @ \/ ~ok]
    /\ UNCHANGED <<files, settings, notices, modal, searchVars>>

\* vault.createBinary(pdfSavePath, arrayBuffer) settles: it rejects when
\* the file exists by now, or when the disk fails
DownloadCreateBinary(i, ok) ==
    LET r == inv[i]
        path == PdfSavePath(constructFileName(r.paperData))
    IN  /\ r.dl = "createBinary"
        /\ IF Exists(path) \/ ~ok
           THEN /\ inv' = [inv EXCEPT ![i].dl = "rejected"]
                /\ hist' = [hist EXCEPT ![i].fault = @ \/ ~ok]
                /\ UNCHANGED files
           ELSE /\ files' = (path :> PdfBytes(r.paperData.pdfUrl)) @@ files
                /\ inv' = [inv EXCEPT ![i].dl = "resolved"]
                /\ hist' = [hist EXCEPT ![i].writes = @ \cup {path}]
        /\ UNCHANGED <<settings, notices, modal, searchVars>>

\* line 198: paperData.pdfPath = await this.downloadPdf(...)
DownloadSettled_NoAwait(r) == TRUE
DownloadSettled(r) == r.dl \in {"resolved", "rejected"}

\* as AwaitDownload, but a rejected download is swallowed and the note
\* stage starts
AwaitDownload_Continue(i) ==
    LET r == inv[i]
    IN  /\ r.pc = "download"
        /\ DownloadSettled(r)
        /\ inv' = [inv EXCEPT ![i] =
               [r EXCEPT !.pc = "note", !.note = "template",
                         !.paperData.pdfPath =
                             IF r.dl = "resolved"
                             THEN PdfSavePath(constructFileName(r.paperData))
                             ELSE @]]
        /\ UNCHANGED <<files, settings, notices, hist, modal, searchVars>>

AwaitDownload(i) ==
    LET r == inv[i]
    IN  /\ r.pc = "download"
        /\ DownloadSettled(r)
        /\ inv' = [inv EXCEPT ![i] =
               IF r.dl = "rejected" THEN [r EXCEPT !.pc = "threw"]
               ELSE [r EXCEPT !.pc = "note", !.note = "template",
                              !.paperData.pdfPath =
                                  IF r.dl = "resolved"
                                  THEN PdfSavePath(constructFileName(r.paperData))
                                  ELSE @]]
        /\ UNCHANGED <<files, settings, notices, hist, modal, searchVars>>

(***************************************************************************)
(* createFileFromPaperData.                                                *)
(***************************************************************************)
\* createFileWithTemplate: the template file when there is one, else the
\* default template, rendered with the paper as it is now
createFileWithTemplate(paperData) ==
    Render(IF Exists(settings.templateFileLocation)
           THEN files[settings.templateFileLocation]
           ELSE NOTE_TEMPLATE_DEFAULT,
           paperData)

\* await this.createFileWithTemplate(paperData) returns, and
\* adapter.exists(pathToFile) is called
RenderTemplate(i) ==
    LET r == inv[i]
    IN  /\ r.note = "template"
        /\ inv' = [inv EXCEPT ![i].template = createFileWithTemplate(r.paperData),
                              ![i].note = "exists"]
        /\ UNCHANGED <<files, settings, notices, hist, modal, searchVars>>

\* lines 110-118: what createFileFromPaperData opens on its way out
OpenedOnExit(paperData, path) ==
    {path} \cup (IF settings.openPdfAfterDownload /\ paperData.pdfPath # <<>>
                 THEN {paperData.pdfPath} ELSE {})

\* line 102: if (await this.app.vault.adapter.exists(pathToFile))
NoteSkipsWrite_NoCheck(path) == FALSE
NoteSkipsWrite(path) == Exists(path)

\* adapter.exists(pathToFile) returns
NoteExists(i) ==
    LET r == inv[i]
        path == NotePath(r.paperData)
    IN  /\ r.note = "exists"
        /\ hist' = [hist EXCEPT ![i].noteExisted =
                        IF Exists(path) THEN "yes" ELSE "no"]
        /\ IF NoteSkipsWrite(path)
           THEN /\ notices' = notices \cup {<<"inv", i, FILE_ALREADY_EXISTS>>}
                /\ inv' = [inv EXCEPT ![i].note = "resolved",
                                      ![i].opened = OpenedOnExit(r.paperData, path)]
           ELSE /\ inv' = [inv EXCEPT ![i].note = "create"]
                /\ UNCHANGED notices
        /\ UNCHANGED <<files, settings, modal, searchVars>>

\* vault.create(pathToFile, template) settles: it rejects when the file
\* exists by now, or when the disk fails
NoteCreate(i, ok) ==
    LET r == inv[i]
        path == NotePath(r.paperData)
    IN  /\ r.note = "create"
        /\ IF Exists(path) \/ ~ok
           THEN /\ inv' = [inv EXCEPT ![i].note = "rejected"]
                /\ hist' = [hist EXCEPT ![i].fault = @ \/ ~ok]
                /\ UNCHANGED files
           ELSE /\ files' = (path :> r.template) @@ files
                /\ inv' = [inv EXCEPT ![i].note = "resolved",
                                      ![i].opened = OpenedOnExit(r.paperData, path)]
                /\ hist' = [hist EXCEPT ![i].writes = @ \cup {path}]
        /\ UNCHANGED <<settings, notices, modal, searchVars>>

(***************************************************************************)
(* saveBibTex.                                                             *)
(***************************************************************************)
\* saveBibTex up to its first await: the state of its promise, and what
\* it says
CallSaveBibTex(i) ==
    IF settings.saveBibTex = FALSE THEN [bib |-> "resolved", said |-> {}]
    ELSE IF settings.bibTexFileLocation = <<>>
    THEN [bib |-> "resolved", said |-> {<<"inv", i, BIBTEX_LOCATION_NOT_SET>>}]
    ELSE [bib |-> "exists", said |-> {}]

\* line 208: await this.createFileFromPaperData(paperData, pathToFile)
NoteSettled(r) == r.note \in {"resolved", "rejected"}

\* line 211: paperData?.bibtex && (await this.saveBibTex(paperData.bibtex))
AwaitNote(i) ==
    LET r == inv[i]
        c == CallSaveBibTex(i)
    IN  /\ r.pc = "note"
        /\ NoteSettled(r)
        /\ IF r.note = "rejected"
           THEN /\ inv' = [inv EXCEPT ![i].pc = "threw"]
                /\ UNCHANGED notices
           ELSE IF r.paperData.bibtex = <<>>
           THEN /\ inv' = [inv EXCEPT ![i].pc = "returned"]
                /\ UNCHANGED notices
           ELSE /\ inv' = [inv EXCEPT ![i].pc = "bibtex", ![i].bib = c.bib]
                /\ notices' = notices \cup c.said
        /\ UNCHANGED <<files, settings, hist, modal, searchVars>>

\* adapter.exists(bibTexPath) returns
BibExists(i) ==
    /\ inv[i].bib = "exists"
    /\ IF Exists(settings.bibTexFileLocation)
       THEN /\ inv' = [inv EXCEPT ![i].bib = "read"]
            /\ UNCHANGED notices
       ELSE /\ inv' = [inv EXCEPT ![i].bib = "resolved"]
            /\ notices' = notices \cup {<<"inv", i, BIBTEX_NOT_FOUND>>}
    /\ UNCHANGED <<files, settings, hist, modal, searchVars>>

\* adapter.read(bibTexPath) returns; vault.append is called and not awaited
BibRead(i) ==
    LET r == inv[i]
        bibtexText == files[settings.bibTexFileLocation]
    IN  /\ r.bib = "read"
        /\ IF Includes(bibtexText, r.paperData.bibtex)
           THEN /\ inv' = [inv EXCEPT ![i].bib = "resolved"]
                /\ notices' = notices \cup {<<"inv", i, BIBTEX_ALREADY_EXISTS>>}
           ELSE /\ inv' = [inv EXCEPT ![i].bib = "resolved", ![i].app = "pending"]
                /\ UNCHANGED notices
        /\ UNCHANGED <<files, settings, hist, modal, searchVars>>

\* line 167: the bibtexText that line 182 reads; the text read at line 169
\* is another variable of the same name
OuterBibtexText == <<>>

\* line 182: the text handed to vault.append
AppendedText(bibtex) == bibtex \o <<NL, NL>> \o OuterBibtexText

\* vault.append(bibtextFile, ...) settles
AppendSettles(i, ok) ==
    LET r == inv[i]
        path == settings.bibTexFileLocation
    IN  /\ r.app = "pending"
        /\ IF ok
           THEN /\ files' = [files EXCEPT ![path] = @ \o AppendedText(r.paperData.bibtex)]
                /\ inv' = [inv EXCEPT ![i].app = "saved"]
                /\ hist' = [hist EXCEPT ![i].writes = @ \cup {path}]
                /\ notices' = notices \cup {<<"inv", i, BIBTEX_SAVED>>}
           ELSE /\ inv' = [inv EXCEPT ![i].app = "error"]
                /\ hist' = [hist EXCEPT ![i].fault = TRUE]
                /\ notices' = notices \cup {<<"inv", i, BIBTEX_ERROR>>}
                /\ UNCHANGED files
        /\ UNCHANGED <<settings, modal, searchVars>>

\* line 211: await this.saveBibTex(...) returns
BibSettled(r) == r.bib = "resolved"

AwaitBib(i) ==
    /\ inv[i].pc = "bibtex"
    /\ BibSettled(inv[i])
    /\ inv' = [inv EXCEPT ![i].pc = "returned"]
    /\ UNCHANGED <<files, settings, notices, hist, modal, searchVars>>

(***************************************************************************)
(* createNoteFromUrlModal.                                                 *)
(***************************************************************************)
Urls == {"not a url", "https://arxiv.org/abs/1", "https://www.semanticscholar.org/paper/2"}

\* isValidUrl of ./utility
isValidUrl(url) == url # "not a url"

\* url.includes("arxiv.org")
IncludesArxiv(url) == url = "https://arxiv.org/abs/1"

\* the command callback: new createNoteFromUrlModal(...).open()
OpenModal(m) ==
    /\ ~modal[m].open
    /\ modal[m].fetch = "none"
    /\ modal' = [modal EXCEPT ![m].open = TRUE]
    /\ UNCHANGED <<files, settings, notices, inv, hist, searchVars>>

\* the keydown listener of onOpen, for the Enter key, with the synchronous
\* head of fetchPaperDataAndCreateNoteFromUrl
KeydownEnter(m, url) ==
    /\ modal[m].open
    /\ IF ~isValidUrl(url)
       THEN /\ notices' = notices \cup {<<"modal", m, INVALID_URL>>}
            /\ UNCHANGED modal
       ELSE IF ~modal[m].running
       THEN /\ modal' = [modal EXCEPT ![m].running = TRUE, ![m].fetch = "pending",
                                      ![m].fetches = @ + 1]
            /\ notices' = notices \cup
                   {<<"modal", m, IF IncludesArxiv(url) THEN NOTICE_RETRIEVING_ARXIV
                                  ELSE NOTICE_RETRIEVING_S2>>}
       ELSE UNCHANGED <<modal, notices>>
    /\ UNCHANGED <<files, settings, inv, hist, searchVars>>

\* Modal.close(), by the user or by the finally handler
CloseModal(m) ==
    /\ modal[m].open
    /\ modal' = [modal EXCEPT ![m].open = FALSE]
    /\ UNCHANGED <<files, settings, notices, inv, hist, searchVars>>

\* paperFetchFunction(url) resolves: the then handler, the finally handler
FetchResolves(m, i, paperData) ==
    /\ modal[m].fetch = "pending"
    /\ BeginPipeline(i, paperData, <<"modal", m>>, {})
    /\ modal' = [modal EXCEPT ![m].fetch = "resolved", ![m].started = @ + 1,
                              ![m].open = FALSE]
    /\ UNCHANGED searchVars

\* paperFetchFunction(url) rejects: the catch handler, here calling the
\* fetch once more
FetchRejects_Retry(m) ==
    /\ modal[m].fetch = "pending"
    /\ modal[m].fetches < 2
    /\ modal' = [modal EXCEPT ![m].failed = TRUE, ![m].fetches = @ + 1]
    /\ notices' = notices \cup {<<"modal", m, NOTICE_PAPER_NOTE_DOWNLOAD_ERROR>>}
    /\ UNCHANGED <<files, settings, inv, hist, searchVars>>

\* paperFetchFunction(url) rejects: the catch handler, the finally handler
FetchRejects(m) ==
    /\ modal[m].fetch = "pending"
    /\ modal' = [modal EXCEPT ![m].fetch = "rejected", ![m].failed = TRUE,
                              ![m].open = FALSE]
    /\ notices' = notices \cup {<<"modal", m, NOTICE_PAPER_NOTE_DOWNLOAD_ERROR>>}
    /\ UNCHANGED <<files, settings, inv, hist, searchVars>>

(***************************************************************************)
(* paperSearchModal: the delayed search.                                   *)
(***************************************************************************)
delayInMs == 250

Queries == {<<"a", "b">>, <<"a", "b", "c">>, <<"a", "b", "d">>}

\* searchSemanticScholar of ./paperData: the papers found for a query, here
\* the one paper that has the query as its title
searchSemanticScholar(query) == << Paper(query, <<>>, <<>>) >>

\* a sleeping call whose timer is not due yet
Waiting(c) ==
    call[c].state = "sleeping" /\ now < call[c].timestamp + delayInMs

\* the calls as they are once the user has entered query: a call that
\* still waits for its delay has been followed by newer input
Overtake(query) ==
    [d \in Calls |->
        IF Waiting(d) /\ call[d].query # query
        THEN [call[d] EXCEPT !.overtaken = TRUE] ELSE call[d]]

\* the keydown listener of onOpen for shift+Enter, that is
\* searchSemanticScholarWithDelay up to its await of Sleep
KeydownShiftEnter(c, query) ==
    /\ call[c].state = "none"
    /\ \A d \in Calls : d < c => call[d].state # "none"
    /\ IF query = lastSearch \/ Len(query) < 3
       THEN /\ call' = [Overtake(query) EXCEPT ![c] =
                           [NoCall EXCEPT !.state = "returned", !.query = query,
                                          !.timestamp = now]]
            /\ UNCHANGED lastSearchTime
       ELSE /\ call' = [Overtake(query) EXCEPT ![c] =
                           [NoCall EXCEPT !.state = "sleeping", !.query = query,
                                          !.timestamp = now]]
            /\ lastSearchTime' = now
    /\ UNCHANGED <<now, ticks, lastSearch, lastSearchResults, pipelineVars>>

\* time passes: one millisecond, or the delay of the timers that wait
AdvanceClock(d) ==
    /\ IF d = 1 THEN ticks < MaxTicks ELSE \E c \in Calls : Waiting(c)
    /\ now' = now + d
    /\ ticks' = IF d = 1 THEN ticks + 1 ELSE ticks
    /\ UNCHANGED <<lastSearchTime, lastSearch, lastSearchResults, call, pipelineVars>>

\* line 188: if (this.lastSearchTime != timestamp)
Superseded(timestamp) == lastSearchTime # timestamp

\* Sleep(this.delayInMs) resolves: the search is dropped or dispatched
SleepElapses(c) ==
    /\ call[c].state = "sleeping"
    /\ now >= call[c].timestamp + delayInMs
    /\ IF Superseded(call[c].timestamp)
       THEN /\ call' = [call EXCEPT ![c].state = "canceled"]
            /\ UNCHANGED lastSearch
       ELSE /\ call' = [call EXCEPT ![c].state = "searching"]
            /\ lastSearch' = call[c].query
    /\ UNCHANGED <<now, ticks, lastSearchTime, lastSearchResults, pipelineVars>>

\* searchSemanticScholar(query) settles
SearchResponds(c, ok) ==
    /\ call[c].state = "searching"
    /\ IF ok
       THEN /\ lastSearchResults' = searchSemanticScholar(call[c].query)
            /\ call' = [call EXCEPT ![c].state = "done"]
       ELSE /\ call' = [call EXCEPT ![c].state = "failed"]
            /\ UNCHANGED lastSearchResults
    /\ UNCHANGED <<now, ticks, lastSearchTime, lastSearch, pipelineVars>>

\* getSuggestions, the Semantic Scholar part of the list
RemoteSuggestions(query) ==
    IF query = lastSearch
    THEN [k \in 1..Len(lastSearchResults) |->
             [paper |-> lastSearchResults[k], resultType |-> "semanticscholar",
              s2Url |-> lastSearchResults[k].url, isFirstS2Result |-> k = 1]]
    ELSE <<>>

(***************************************************************************)
(* Local Note Reader: getPaperDataFromLocalFile, getAllLocalPaperData and  *)
(* the constructor of paperSearchModal.                                    *)
(***************************************************************************)
\* fileCache?.frontmatter: absent, or the fields of the front-matter
NoFrontmatter == [present |-> FALSE, fields |-> <<>>]
Frontmatter(fields) == [present |-> TRUE, fields |-> fields]

\* frontmatter?.key: whether it is defined, and frontmatter?.key ?? default
Has(frontmatter, key) == frontmatter.present /\ key \in DOMAIN frontmatter.fields
Get(frontmatter, key, default) ==
    IF Has(frontmatter, key) THEN frontmatter.fields[key] ELSE default

\* length of the shortest run of non-newline characters at the head of s
\* that is followed by "]]", or -1 when there is none: the group (.*?)
RECURSIVE LinkGroup(_, _)
LinkGroup(s, k) ==
    IF Len(s) < k + 2 THEN -1
    ELSE IF SubSeq(s, k + 1, k + 2) = <<"]", "]">> THEN k
    ELSE IF s[k + 1] = NL THEN -1
    ELSE LinkGroup(s, k + 1)

\* the places of s at which /\[\[(.*?)\]\]/ matches
LinkStarts(s) ==
    {k \in 1..(Len(s) - 1) :
        /\ SubSeq(s, k, k + 1) = <<"[", "[">>
        /\ LinkGroup(SubSeq(s, k + 2, Len(s)), 0) >= 0}

\* s.match(/\[\[(.*?)\]\]/): null, or the first match with its group 1
MatchLink(s) ==
    IF LinkStarts(s) = {} THEN [null |-> TRUE, group |-> <<>>]
    ELSE LET k    == CHOOSE k \in LinkStarts(s) : \A l \in LinkStarts(s) : k <= l
             rest == SubSeq(s, k + 2, Len(s))
         IN  [null |-> FALSE, group |-> SubSeq(rest, 1, LinkGroup(rest, 0))]

\* String.prototype.split(sep) for a separator of one character
RECURSIVE Split(_, _)
Split(s, sep) ==
    LET at == {k \in 1..Len(s) : s[k] = sep}
    IN  IF at = {} THEN <<s>>
        ELSE LET k == CHOOSE k \in at : \A l \in at : k <= l
             IN  <<SubSeq(s, 1, k - 1)>> \o Split(SubSeq(s, k + 1, Len(s)), sep)

\* TFile.basename of a path folder/name.md
Basename(path) == SubSeq(path, 3, Len(path) - 1)

\* the record of lines 35-45
LocalPaper(frontmatter, basename, pdfPath) ==
    [title |-> Get(frontmatter, "title", basename),
     authors |-> IF frontmatter.present
                 THEN Split(frontmatter.fields["authors"], ",") ELSE <<>>,
     abstract |-> Get(frontmatter, "abstract", <<>>),
     url |-> Get(frontmatter, "url", <<>>),
     venue |-> Get(frontmatter, "venue", <<>>),
     publicationDate |-> Get(frontmatter, "year", <<>>),
     tags |-> Get(frontmatter, "tags", <<>>),
     pdfPath |-> pdfPath,
     citekey |-> Get(frontmatter, "citekey", <<>>)]

NoLocalPaper == LocalPaper(NoFrontmatter, <<>>, <<>>)

\* getPaperDataFromLocalFile: the record it returns, or the line at which
\* it throws a TypeError: line 33 when match returns null, line 37 when the
\* front-matter is there and frontmatter.authors is undefined
getPaperDataFromLocalFile(frontmatter, basename) ==
    LET m == MatchLink(Get(frontmatter, "pdf", <<>>))
    IN  IF m.null THEN [threw |-> 33, paper |-> NoLocalPaper]
        ELSE IF frontmatter.present /\ ~Has(frontmatter, "authors")
        THEN [threw |-> 37, paper |-> NoLocalPaper]
        ELSE [threw |-> 0, paper |-> LocalPaper(frontmatter, basename, m.group)]

\* the notes the vault holds under NoteLocation before the plugin runs
NoteNames == <<"N1", "N2", "N3", "N4">>
LocalNotes == {<<"n", "/", NoteNames[k], ".md">> : k \in 1..MaxNotes}

LinkTo(path) == <<"[", "[">> \o path \o <<"]", "]">>

\* the front-matter a user's note may have: none; title, authors and a
\* wrapped pdf link; no authors; no pdf; a pdf that is no link; no title
Frontmatters ==
    { NoFrontmatter,
      Frontmatter(("title" :> <<"A">>) @@ ("authors" :> <<"X", ",", "Y">>)
                  @@ ("pdf" :> LinkTo(<<"p">>))),
      Frontmatter(("title" :> <<"A">>) @@ ("pdf" :> LinkTo(<<"p">>))),
      Frontmatter(("title" :> <<"A">>) @@ ("authors" :> <<"X">>)),
      Frontmatter(("title" :> <<"A">>) @@ ("authors" :> <<"X">>)
                  @@ ("pdf" :> <<"p">>)),
      Frontmatter(("authors" :> <<"X">>) @@ ("pdf" :> <<"q">> \o LinkTo(<<"p">>))) }

\* getMarkdownFiles().filter(file => file.path.startsWith(NoteLocation))
LocalFiles ==
    {path \in DOMAIN metadataCache :
        SubSeq(path, 1, Len(settings.NoteLocation)) = settings.NoteLocation}

\* getPaperDataFromLocalFile(file) is called
ReadLocalFile(path) ==
    /\ path \in DOMAIN metadataCache
    /\ path \notin DOMAIN reads
    /\ reads' = (path :> getPaperDataFromLocalFile(metadataCache[path], Basename(path)))
                @@ reads
    /\ UNCHANGED <<metadataCache, allLocal, localPaperData, draft,
                   files, settings, notices, inv, hist, modal,
                   now, ticks, lastSearchTime, lastSearch, lastSearchResults, call>>

\* the map of lines 52-54 and of part_000 158-164: the results of the
\* files, or the throw of the first file that throws
MapLocalFiles ==
    LET result(path) == getPaperDataFromLocalFile(metadataCache[path], Basename(path))
    IN  IF \E path \in LocalFiles : result(path).threw # 0
        THEN [threw |-> TRUE, papers |-> <<>>]
        ELSE [threw |-> FALSE, papers |-> [path \in LocalFiles |-> result(path).paper]]

\* getAllLocalPaperData() is called: its promise resolves with the records
\* or rejects
GetAllLocalPaperData ==
    /\ allLocal.state = "none"
    /\ allLocal' = IF MapLocalFiles.threw THEN [state |-> "rejected", value |-> <<>>]
                   ELSE [state |-> "resolved", value |-> MapLocalFiles.papers]
    /\ UNCHANGED <<metadataCache, reads, localPaperData, draft,
                   files, settings, notices, inv, hist, modal,
                   now, ticks, lastSearchTime, lastSearch, lastSearchResults, call>>

\* the command callback: new paperSearchModal(...), lines 155-164 of the
\* constructor
OpenSearchModal ==
    /\ localPaperData.state = "none"
    /\ localPaperData' =
          IF MapLocalFiles.threw THEN [state |-> "threw", results |-> <<>>]
          ELSE [state |-> "built",
                results |-> [path \in LocalFiles |->
                                [paper |-> MapLocalFiles.papers[path],
                                 resultType |-> "local", localFilePath |-> path]]]
    /\ UNCHANGED <<metadataCache, reads, allLocal, draft,
                   files, settings, notices, inv, hist, modal,
                   now, ticks, lastSearchTime, lastSearch, lastSearchResults, call>>

(***************************************************************************)
(* A note is rendered, written, indexed and read back.                     *)
(***************************************************************************)
\* the names of the front-matter keys and of the tokens, as text
FieldChars ==
    [title |-> <<"t", "i", "t", "l", "e">>,
     authors |-> <<"a", "u", "t", "h", "o", "r", "s">>,
     abstract |-> <<"a", "b", "s", "t", "r", "a", "c", "t">>,
     url |-> <<"u", "r", "l">>,
     venue |-> <<"v", "e", "n", "u", "e">>,
     publicationDate |-> <<"p", "u", "b", "l", "i", "c", "a", "t", "i", "o", "n",
                           "D", "a", "t", "e">>,
     year |-> <<"y", "e", "a", "r">>,
     tags |-> <<"t", "a", "g", "s">>,
     pdf |-> <<"p", "d", "f">>,
     citekey |-> <<"c", "i", "t", "e", "k", "e", "y">>]

FrontmatterKeys ==
    {"title", "authors", "abstract", "url", "venue", "year", "tags", "pdf", "citekey"}

Dashes == <<"-", "-", "-">>
Quote == "\""

\* a YAML scalar: one leading blank dropped, double quotes around it removed
Scalar(raw) ==
    LET v == IF Len(raw) > 0 /\ Head(raw) = " " THEN Tail(raw) ELSE raw
    IN  IF Len(v) >= 2 /\ v[1] = Quote /\ v[Len(v)] = Quote
        THEN [null |-> FALSE, text |-> SubSeq(v, 2, Len(v) - 1)]
        ELSE [null |-> v = <<>>, text |-> v]

\* metadataCache.getFileCache(file)?.frontmatter for a note of this text:
\* the lines "key: value" between a first line --- and the next line ---;
\* a key with nothing after the colon is null
ParseFrontmatter(text) ==
    LET lines  == Split(text, NL)
        closes == {k \in 2..Len(lines) : lines[k] = Dashes}
        close  == CHOOSE k \in closes : \A l \in closes : k <= l
        valueOf(key, k) ==
            Scalar(SubSeq(lines[k], Len(FieldChars[key]) + 2, Len(lines[k])))
        lineOf(key) ==
            {k \in 2..(close - 1) :
                /\ Len(lines[k]) > Len(FieldChars[key])
                /\ SubSeq(lines[k], 1, Len(FieldChars[key]) + 1)
                       = FieldChars[key] \o <<":">>
                /\ ~valueOf(key, k).null}
    IN  IF lines[1] # Dashes \/ closes = {} THEN NoFrontmatter
        ELSE Frontmatter(
                 [key \in {f \in FrontmatterKeys : lineOf(f) # {}} |->
                     valueOf(key, CHOOSE k \in lineOf(key) :
                                      \A l \in lineOf(key) : k <= l).text])

\* a template whose front-matter carries the title, the authors and the
\* pdf link (the link in quotes: YAML reads a bare [[...]] as a list)
FrontmatterTemplate ==
    Dashes \o <<NL>>
    \o FieldChars.title \o <<":", " ">> \o Token(FieldChars.title) \o <<NL>>
    \o FieldChars.authors \o <<":", " ">> \o Token(FieldChars.authors) \o <<NL>>
    \o FieldChars.pdf \o <<":", " ", Quote>> \o Token(FieldChars.pdf) \o <<Quote, NL>>
    \o Dashes \o <<NL>>

\* every token of lines 71-89, one after the other
AllTokensTemplate ==
    Token(FieldChars.title) \o <<"|">> \o Token(FieldChars.authors) \o <<"|">>
    \o Token(FieldChars.abstract) \o <<"|">> \o Token(FieldChars.url) \o <<"|">>
    \o Token(FieldChars.venue) \o <<"|">> \o Token(FieldChars.publicationDate)
    \o <<"|">> \o Token(FieldChars.tags) \o <<"|">> \o Token(FieldChars.pdf)
    \o <<"|">> \o Token(FieldChars.citekey) \o <<"|">>
    \o Token(<<"d", "a", "t", "e">>) \o Token(<<"t", "i", "m", "e", ":", "m">>)

\* the templates a user may keep in the template file
Templates ==
    { FrontmatterTemplate,
      AllTokensTemplate,
      Token(FieldChars.title) \o <<"|">> \o Token(FieldChars.abstract),
      Token(FieldChars.abstract),
      Token(FieldChars.url),
      <<"{", "{">> \o Token(FieldChars.tags) \o FieldChars.url \o <<"}", "}">>,
      Token(<<"t", "i", "m", "e">>) \o Token(<<"d", "a", "t", "e", ":", "Y">>)
          \o Token(FieldChars.title) }

\* the papers createFileWithTemplate is called with: one author and a pdf;
\* two authors, a pdf and every field filled; a title that is the text of
\* a token; an abstract that is the text of a token; an abstract of three
\* lines; no authors and no optional field
RenderPapers ==
    { [Paper(<<"A">>, <<"u">>, <<>>) EXCEPT !.pdfPath = <<"p", "/", "A", ".pdf">>],
      [Paper(<<"A">>, <<"u">>, <<"a">>) EXCEPT
          !.authors = << <<"X">>, <<"Y">> >>, !.pdfPath = <<"p", "/", "A", ".pdf">>,
          !.venue = <<"v">>, !.publicationDate = <<"d">>,
          !.tags = << <<"g">>, <<"h">> >>, !.citekey = <<"k">>],
      [Paper(Token(FieldChars.abstract), <<>>, <<>>) EXCEPT !.abstract = <<"s", "s">>],
      [Paper(<<"B">>, <<>>, <<>>) EXCEPT !.abstract = Token(FieldChars.title)],
      [Paper(<<"B">>, <<>>, <<>>) EXCEPT !.abstract = <<"a", NL, "b", NL, "c">>],
      [Paper(<<"B">>, <<>>, <<>>) EXCEPT !.authors = <<>>, !.url = <<>>] }

\* the template createFileWithTemplate starts from
CurrentTemplate ==
    IF Exists(settings.templateFileLocation)
    THEN files[settings.templateFileLocation] ELSE NOTE_TEMPLATE_DEFAULT

\* line 99: let template = await this.createFileWithTemplate(paperData)
CreateFileWithTemplate ==
    /\ draft.state = "called"
    /\ draft' = [draft EXCEPT !.template = createFileWithTemplate(draft.paperData),
                              !.state = "rendered"]
    /\ UNCHANGED <<metadataCache, reads, allLocal, localPaperData,
                   files, settings, notices, inv, hist, modal,
                   now, ticks, lastSearchTime, lastSearch, lastSearchResults, call>>

\* lines 102-108: vault.create(pathToFile, template) writes the note, and
\* the metadata cache indexes it
WriteAndIndexNote ==
    LET path == NotePath(draft.paperData)
    IN  /\ draft.state = "rendered"
        /\ ~Exists(path)
        /\ files' = (path :> draft.template) @@ files
        /\ metadataCache' = (path :> ParseFrontmatter(draft.template)) @@ metadataCache
        /\ draft' = [draft EXCEPT !.state = "written"]
        /\ UNCHANGED <<reads, allLocal, localPaperData,
                       settings, notices, inv, hist, modal,
                       now, ticks, lastSearchTime, lastSearch, lastSearchResults, call>>

(***************************************************************************)
(* The specifications.                                                     *)
(***************************************************************************)
\* the continuations of the invocations
PipelineStep ==
    \/ \E i \in Inv : DownloadExists(i)
    \/ \E i \in Inv, ok \in BOOLEAN : DownloadResponse(i, ok)
    \/ \E i \in Inv, ok \in BOOLEAN : DownloadCreateBinary(i, ok)
    \/ \E i \in Inv : AwaitDownload(i)
    \/ \E i \in Inv : RenderTemplate(i)
    \/ \E i \in Inv : NoteExists(i)
    \/ \E i \in Inv, ok \in BOOLEAN : NoteCreate(i, ok)
    \/ \E i \in Inv : AwaitNote(i)
    \/ \E i \in Inv : BibExists(i)
    \/ \E i \in Inv : BibRead(i)
    \/ \E i \in Inv, ok \in BOOLEAN : AppendSettles(i, ok)
    \/ \E i \in Inv : AwaitBib(i)

\* papers are chosen in the search modal
Next ==
    \/ \E i \in Inv, p \in Papers : ChooseSuggestion(i, p)
    \/ PipelineStep

Spec == Init /\ [][Next]_vars

\* the papers of Papers, and a paper that has a BibTeX entry and no pdf url
DownloadPapers == Papers \cup {Paper(<<"B", "?">>, <<>>, <<"c">>)}

\* papers with and without a pdf url are chosen in the search modal of a
\* plugin that saves BibTeX
DownloadNext ==
    \/ \E i \in Inv, p \in DownloadPapers : ChooseSuggestion(i, p)
    \/ PipelineStep

DownloadInit == Init /\ settings.saveBibTex /\ settings.bibTexFileLocation # <<>>

DownloadSpec == DownloadInit /\ [][DownloadNext]_vars

\* the Local Note Reader is run on the notes of the vault
ReaderNext ==
    \/ \E path \in LocalNotes : ReadLocalFile(path)
    \/ GetAllLocalPaperData
    \/ OpenSearchModal

\* a vault whose notes have any of the front-matters
ReaderInit ==
    /\ \E c \in Configurations : files = c.files /\ settings = c.settings
    /\ settings.saveBibTex /\ Exists(settings.bibTexFileLocation)
    /\ PluginInit
    /\ metadataCache \in [LocalNotes -> Frontmatters]
    /\ reads = <<>>
    /\ allLocal = NoPromise
    /\ localPaperData = NoLocalPaperData
    /\ draft = NoDraft

ReaderSpec == ReaderInit /\ [][ReaderNext]_vars

\* a note is rendered from a template and a paper, written, and read back
RenderNext ==
    \/ CreateFileWithTemplate
    \/ WriteAndIndexNote
    \/ \E p \in RenderPapers : ReadLocalFile(NotePath(p))

\* createFileFromPaperData is called with one of the papers, in a vault
\* whose template file holds one of the templates
RenderInit ==
    /\ \E c \in Configurations, T \in Templates :
          /\ TemplateFile \in DOMAIN c.files
          /\ settings = c.settings
          /\ files = [c.files EXCEPT ![TemplateFile] = T]
    /\ PluginInit
    /\ metadataCache = <<>>
    /\ reads = <<>>
    /\ allLocal = NoPromise
    /\ localPaperData = NoLocalPaperData
    /\ \E p \in RenderPapers : draft = [NoDraft EXCEPT !.paperData = p, !.state = "called"]

RenderSpec == RenderInit /\ [][RenderNext]_vars

\* papers are fetched by url in the createNoteFromUrlModal
ModalNext ==
    \/ \E m \in Modals : OpenModal(m)
    \/ \E m \in Modals, u \in Urls : KeydownEnter(m, u)
    \/ \E m \in Modals : CloseModal(m)
    \/ \E m \in Modals, i \in Inv, p \in Papers : FetchResolves(m, i, p)
    \/ \E m \in Modals : FetchRejects(m)
    \/ PipelineStep

ModalSpec == Init /\ [][ModalNext]_vars

\* the delayed search of the search modal
SearchNext ==
    \/ \E c \in Calls, q \in Queries : KeydownShiftEnter(c, q)
    \/ \E d \in {1, delayInMs} : AdvanceClock(d)
    \/ \E c \in Calls : SleepElapses(c)
    \/ \E c \in Calls, ok \in BOOLEAN : SearchResponds(c, ok)

\* the search modal of a plugin that saves BibTeX
SearchInit == Init /\ settings.saveBibTex /\ Exists(settings.bibTexFileLocation)

SearchSpec == SearchInit /\ [][SearchNext]_vars

(***************************************************************************)
(* Properties.                                                             *)
(***************************************************************************)
NotePaths == {NotePath(p) : p \in Papers}
PdfPaths == {PdfSavePath(constructFileName(p)) : p \in Papers}

\* every file among paths that exists keeps its content in the step
Kept(paths) ==
    \A path \in paths \cap DOMAIN files :
        path \in DOMAIN files' /\ files'[path] = files[path]

\* C1: an invocation that finds a note at its target path writes nothing
\* to that path, opens the note, and createFileFromPaperData completes (the
\* invocation does not throw); and in no step does a note that exists
\* change its content.
C1_ExistingNoteLeftAlone ==
    \A i \in Inv :
        hist[i].noteExisted = "yes" =>
            /\ inv[i].note = "resolved"
            /\ inv[i].pc # "threw"
            /\ NotePath(inv[i].paperData) \notin hist[i].writes
            /\ NotePath(inv[i].paperData) \in inv[i].opened

C1_NoteNeverOverwritten ==
    [] C1_ExistingNoteLeftAlone /\ [][Kept(NotePaths)]_vars

\* a second invocation found the note of the first one and has returned
C1_Witness ==
    \E i \in Inv :
        /\ hist[i].noteExisted = "yes"
        /\ inv[i].pc = "returned"
        /\ files[NotePath(inv[i].paperData)] # inv[i].template

\* C2: a downloadPdf that finds a file at pdfSavePath resolves with that
\* path and has sent no request; and in no step does a pdf that exists
\* change its content.
C2_ExistingPdfResolves ==
    \A i \in Inv :
        hist[i].pdfExisted = "yes" =>
            /\ inv[i].dl = "resolved"
            /\ hist[i].netReqs = 0
            /\ hist[i].writes \cap PdfPaths = {}
            /\ inv[i].pc # "download" =>
                   /\ inv[i].paperData.pdfPath
                          = PdfSavePath(constructFileName(inv[i].paperData))
                   /\ Exists(inv[i].paperData.pdfPath)

C2_ExistingPdfSkipsDownload ==
    [] C2_ExistingPdfResolves /\ [][Kept(PdfPaths)]_vars

\* an invocation found the pdf another paper of the same file name had
\* downloaded from another url
C2_Witness ==
    \E i \in Inv :
        /\ hist[i].pdfExisted = "yes"
        /\ inv[i].pc = "returned"
        /\ files[inv[i].paperData.pdfPath] # PdfBytes(inv[i].paperData.pdfUrl)

DownloadInProgress(r) == r.dl \in {"exists", "request", "createBinary"}
NoteInProgress(r) == r.note \in {"template", "exists", "create"}
BibInProgress(r) == r.bib \in {"exists", "read"}

\* C6: in one invocation the note stage (rendering, exists check, write)
\* has started only if the download was skipped for want of a url or has
\* resolved and set pdfPath; the BibTeX stage has started only if the note
\* stage has completed; download and note stage are never both in progress.
C6_StagesOrdered ==
    \A i \in Inv :
        LET r == inv[i]
        IN  /\ r.note # "none" =>
                \/ r.paperData.pdfUrl = <<>> /\ r.dl = "none"
                \/ /\ r.dl = "resolved"
                   /\ r.paperData.pdfPath = PdfSavePath(constructFileName(r.paperData))
            /\ r.bib # "none" => r.note = "resolved"
            /\ ~(DownloadInProgress(r) /\ NoteInProgress(r))
            /\ ~(NoteInProgress(r) /\ BibInProgress(r))

\* an invocation that has downloaded, written its note and appended
C6_Witness ==
    \E i \in Inv :
        /\ inv[i].pc = "returned"
        /\ hist[i].netReqs = 1
        /\ NotePath(inv[i].paperData) \in hist[i].writes
        /\ inv[i].app = "saved"

\* C10: a modal whose fetch has failed has shown the error notice, has
\* started no invocation, and has called the fetch once.
C10_FetchFailureAborts ==
    \A m \in Modals :
        modal[m].failed =>
            /\ <<"modal", m, NOTICE_PAPER_NOTE_DOWNLOAD_ERROR>> \in notices
            /\ modal[m].started = 0
            /\ modal[m].fetches = 1
            /\ \A i \in Inv : hist[i].by # <<"modal", m>>

\* a fetch has failed and its modal is closed
C10_Witness ==
    \E m \in Modals :
        modal[m].failed /\ modal[m].fetch = "rejected" /\ ~modal[m].open

\* the first place (from 0) at which sub occurs in text; Len(text) when it
\* does not occur
FirstIndex(text, sub) ==
    LET at == {k \in 0..(Len(text) - Len(sub)) :
                   SubSeq(text, k + 1, k + Len(sub)) = sub}
    IN  IF at = {} THEN Len(text) ELSE CHOOSE k \in at : \A l \in at : k <= l

\* invocation i has called saveBibTex, which has read or skipped the file
\* and returned, and its append (if any) has been written
BibTexSaved(i) ==
    /\ inv[i].pc = "returned"
    /\ inv[i].bib = "resolved"
    /\ inv[i].app \in {"none", "saved"}

\* C3: when saveBibTex has run twice with the same entry on an existing
\* BibTeX file, the second call made after the first had returned, and
\* all writes have landed, the file holds the entry exactly once.
C3_EntrySavedOnce ==
    \A i, j \in Inv :
        ( /\ j \in hist[i].after
          /\ inv[i].paperData.bibtex = inv[j].paperData.bibtex
          /\ settings.saveBibTex
          /\ Exists(settings.bibTexFileLocation)
          /\ BibTexSaved(i) /\ BibTexSaved(j) )
        => Occurrences(files[settings.bibTexFileLocation], inv[i].paperData.bibtex) = 1

\* C4: when an append lands on a BibTeX file that has content, the new
\* entry stands in the new file before the old content, and the old
\* content is there exactly once.
C4_EntryAheadOfOldContent ==
    [][ \A i \in Inv :
          LET path  == settings.bibTexFileLocation
              entry == inv[i].paperData.bibtex
          IN  ( /\ inv[i].app = "pending"
                /\ inv'[i].app = "saved"
                /\ files[path] # <<>> )
              => /\ FirstIndex(files'[path], entry) + Len(entry)
                        <= FirstIndex(files'[path], files[path])
                 /\ Occurrences(files'[path], files[path]) = 1 ]_vars

\* invocation i has returned and no write of it is in flight
Quiet(i) == inv[i].pc = "returned" /\ inv[i].app # "pending"

SamePaper(p, q) == p = [q EXCEPT !.pdfPath = p.pdfPath]

\* C5: when the pipeline has run twice on the same paper, the second run
\* started after the first had returned, nothing has failed and all writes
\* have landed, the second run has written no file: the vault is as the
\* first run left it.
C5_SecondRunChangesNothing ==
    \A i, j \in Inv :
        ( /\ j \in hist[i].after
          /\ SamePaper(inv[i].paperData, inv[j].paperData)
          /\ Quiet(i) /\ Quiet(j)
          /\ ~hist[i].fault /\ ~hist[j].fault )
        => hist[i].writes = {}

\* the vault after a run of the pipeline on paper p that starts in vault f
\* and is over before anything else happens
SequentialRun(f, p) ==
    LET pdf  == PdfSavePath(constructFileName(p))
        f1   == IF p.pdfUrl # <<>> /\ pdf \notin DOMAIN f
                THEN (pdf :> PdfBytes(p.pdfUrl)) @@ f ELSE f
        p1   == IF p.pdfUrl # <<>> THEN [p EXCEPT !.pdfPath = pdf] ELSE p
        f2   == IF NotePath(p) \in DOMAIN f1 THEN f1
                ELSE (NotePath(p) :> createFileWithTemplate(p1)) @@ f1
        path == settings.bibTexFileLocation
    IN  IF /\ p.bibtex # <<>>
           /\ settings.saveBibTex
           /\ path \in DOMAIN f2
           /\ ~Includes(f2[path], p.bibtex)
        THEN [f2 EXCEPT ![path] = @ \o AppendedText(p.bibtex)]
        ELSE f2

\* the vault the plugin was started with
InitialFiles == (CHOOSE c \in Configurations : c.settings = settings).files

\* C9: when two invocations on different papers have run concurrently,
\* no other invocation has run, nothing has failed and all writes have
\* landed, then both have returned, no note path was written by both, and
\* the vault is what one of the two sequential orders gives.
C9_ConcurrentRunsIndependent ==
    \A i, j \in Inv :
        ( /\ i # j
          /\ inv[i].paperData.title # inv[j].paperData.title
          /\ i \notin hist[j].after /\ j \notin hist[i].after
          /\ Settled(i) /\ Settled(j)
          /\ inv[i].app # "pending" /\ inv[j].app # "pending"
          /\ ~hist[i].fault /\ ~hist[j].fault
          /\ \A k \in Inv \ {i, j} : inv[k].pc = "idle" )
        => /\ inv[i].pc = "returned" /\ inv[j].pc = "returned"
           /\ hist[i].writes \cap hist[j].writes \cap NotePaths = {}
           /\ \/ files = SequentialRun(SequentialRun(InitialFiles, inv[i].paperData),
                                       inv[j].paperData)
              \/ files = SequentialRun(SequentialRun(InitialFiles, inv[j].paperData),
                                       inv[i].paperData)

\* C7: a call that was followed by newer input while it waited for its
\* delay has not dispatched searchSemanticScholar.
C7_OvertakenCallNeverSearches ==
    \A c \in Calls :
        call[c].overtaken => call[c].state \notin {"searching", "done", "failed"}

\* C8: whenever lastSearchResults is not empty, it is the result of the
\* search for lastSearch: getSuggestions shows remote results only under
\* the query they were found for.
C8_ResultsBelongToLastSearch ==
    /\ lastSearchResults # <<>> =>
           lastSearchResults = searchSemanticScholar(lastSearch)
    /\ \A q \in Queries : \A k \in 1..Len(RemoteSuggestions(q)) :
           RemoteSuggestions(q)[k].paper \in
               {searchSemanticScholar(q)[n] : n \in 1..Len(searchSemanticScholar(q))}

\* the notices that report a failure
ErrorNotices == {BIBTEX_ERROR, NOTICE_PAPER_NOTE_DOWNLOAD_ERROR}

\* invocation i, or its caller, has shown a notice that reports a failure
FailureNotified(i) ==
    \E n \in notices :
        /\ n[3] \in ErrorNotices
        /\ <<n[1], n[2]>> \in {<<"inv", i>>, hist[i].by}

\* C11: an invocation that has ended in a rejection (of the download, the
\* binary write or the note creation), or whose BibTeX append has failed,
\* has been reported by a notice of the invocation or of its caller.
C11_EveryFailureNotified ==
    \A i \in Inv :
        (inv[i].pc = "threw" \/ inv[i].app = "error") => FailureNotified(i)

\* C12: with BibTeX saving enabled and the BibTeX location unset, an
\* invocation on a paper that has a BibTeX entry writes no file, and once it
\* is over it has reported the unset location.
C12_UnsetLocationAbortsBeforeWrite ==
    \A i \in Inv :
        ( /\ settings.saveBibTex
          /\ settings.bibTexFileLocation = <<>>
          /\ inv[i].pc # "idle"
          /\ inv[i].paperData.bibtex # <<>> )
        => /\ hist[i].writes = {}
           /\ Settled(i) => <<"inv", i, BIBTEX_LOCATION_NOT_SET>> \in notices

\* C19: an invocation that has returned has no BibTeX append in flight:
\* the append was written, has failed, or was never started.
C19_NoWriteInFlightAfterDone ==
    \A i \in Inv : inv[i].pc = "returned" => inv[i].app # "pending"

\* C20: an invocation whose download was rejected has stopped there: its
\* pdfPath is as it was (empty), it has started neither the note nor the
\* BibTeX stage and has written nothing.  An invocation on a paper without
\* pdfUrl sends no request and starts the note stage, and when it has
\* returned its note exists and saveBibTex has run for its entry.  A pdfPath
\* that is set is the save path of a download that resolved, and a file
\* exists there.
C20_FailedDownloadStopsPipeline ==
    \A i \in Inv :
        LET r == inv[i]
        IN  /\ r.dl = "rejected" =>
                /\ r.paperData.pdfPath = <<>>
                /\ r.pc \in {"download", "threw"}
                /\ r.note = "none" /\ r.bib = "none" /\ r.app = "none"
                /\ hist[i].writes = {}
            /\ (r.pc # "idle" /\ r.paperData.pdfUrl = <<>>) =>
                /\ r.dl = "none" /\ hist[i].netReqs = 0
                /\ r.note # "none"
            /\ (r.pc = "returned" /\ r.paperData.pdfUrl = <<>>) =>
                /\ r.note = "resolved"
                /\ Exists(NotePath(r.paperData))
                /\ r.paperData.bibtex # <<>> => r.bib = "resolved"
            /\ r.paperData.pdfPath # <<>> =>
                /\ r.dl = "resolved"
                /\ r.paperData.pdfPath = PdfSavePath(constructFileName(r.paperData))
                /\ Exists(r.paperData.pdfPath)

\* one invocation has thrown because its request for the pdf failed, and
\* another, on a paper without pdfUrl, has returned with its note written
\* and its BibTeX entry appended
C20_Witness ==
    \E i, j \in Inv :
        /\ inv[i].dl = "rejected" /\ inv[i].pc = "threw" /\ hist[i].netReqs = 1
        /\ inv[j].paperData.pdfUrl = <<>> /\ inv[j].pc = "returned"
        /\ NotePath(inv[j].paperData) \in hist[j].writes
        /\ inv[j].app = "saved"

\* C13: a read of a note that has front-matter without an authors field
\* has not thrown and has returned a record with no authors.
C13_MissingAuthorsReadAsEmpty ==
    \A path \in DOMAIN reads :
        (metadataCache[path].present /\ ~Has(metadataCache[path], "authors"))
        => /\ reads[path].threw = 0
           /\ reads[path].paper.authors = <<>>

\* the read of this front-matter has nothing to fail on: no pdf field or
\* one that holds a link, and no front-matter or one with authors
Readable(frontmatter) ==
    /\ Has(frontmatter, "pdf") => ~MatchLink(frontmatter.fields["pdf"]).null
    /\ frontmatter.present => Has(frontmatter, "authors")

\* C14: a read has failed on the pdf link (line 33) only if the note has a
\* pdf field that holds no [[...]]; a read of a note whose pdf field is
\* [[path]] that has returned gives path as pdfPath; and when every note
\* is without pdf field or holds a link there, getAllLocalPaperData and the
\* constructor of the search modal give the records of all the notes.
C14_PdfLinkFailsOnlyIfMalformed ==
    /\ \A path \in DOMAIN reads :
          LET frontmatter == metadataCache[path]
              pdf == Get(frontmatter, "pdf", <<>>)
          IN  /\ reads[path].threw = 33 =>
                    Has(frontmatter, "pdf") /\ MatchLink(pdf).null
              /\ ( /\ reads[path].threw = 0
                   /\ Len(pdf) >= 4
                   /\ pdf = LinkTo(SubSeq(pdf, 3, Len(pdf) - 2)) )
                 => reads[path].paper.pdfPath = SubSeq(pdf, 3, Len(pdf) - 2)
    /\ (\A path \in LocalFiles : Readable(metadataCache[path])) =>
          /\ allLocal.state # "none" =>
                allLocal.state = "resolved" /\ DOMAIN allLocal.value = LocalFiles
          /\ localPaperData.state # "none" =>
                /\ localPaperData.state = "built"
                /\ DOMAIN localPaperData.results = LocalFiles

\* the note of the draft has been written and read back
ReadBack == draft.state = "written" /\ NotePath(draft.paperData) \in DOMAIN reads

\* C15: when a note rendered from the front-matter template for a paper
\* that has a title and a pdfPath has been written and read back, the read
\* has not thrown and its title, authors and pdfPath are the paper's.
C15_RoundTrip ==
    ( /\ ReadBack
      /\ CurrentTemplate = FrontmatterTemplate
      /\ draft.paperData.title # <<>>
      /\ draft.paperData.pdfPath # <<>> )
    => LET read == reads[NotePath(draft.paperData)]
       IN  /\ read.threw = 0
           /\ read.paper.title = draft.paperData.title
           /\ read.paper.authors = draft.paperData.authors
           /\ read.paper.pdfPath = draft.paperData.pdfPath

\* the fields of the metadata tokens, and the tokens of C16
MetadataFields ==
    {"title", "authors", "abstract", "url", "venue", "publicationDate", "tags"}

RECURSIVE WellFormedTemplate(_)
WellFormedTemplate(s) ==
    LET braces == {k \in 1..Len(s) : s[k] \in {"{", "}"}}
        k      == CHOOSE k \in braces : \A l \in braces : k <= l
        later  == {j \in braces : j > k + 1}
        j      == CHOOSE j \in later : \A l \in later : j <= l
    IN  IF braces = {} THEN TRUE
        ELSE /\ s[k] = "{" /\ k + 1 \in braces /\ s[k + 1] = "{"
             /\ later # {}
             /\ s[j] = "}" /\ j + 1 \in braces /\ s[j + 1] = "}"
             /\ WellFormedTemplate(SubSeq(s, j + 2, Len(s)))

\* the text has no brace and no dollar sign
Plain(text) == \A k \in 1..Len(text) : text[k] \notin {"{", "}", "$"}

PlainValues(paperData) ==
    /\ \A f \in {"title", "abstract", "url", "venue", "publicationDate",
                 "pdfPath", "citekey"} : Plain(paperData[f])
    /\ \A f \in {"authors", "tags"} :
          \A k \in 1..Len(paperData[f]) : Plain(paperData[f][k])

C17_InsertedValueNotRescanned ==
    draft.state # "called" =>
        \A f \in MetadataFields :
            Includes(CurrentTemplate, Token(FieldChars[f]))
            => Includes(draft.template, MetadataValue(draft.paperData, f))

\* the value of a field as text, and that text with every newline replaced
\* by a blank
FieldText(paperData, field) ==
    IF field \in {"authors", "tags"}
    THEN Join(paperData[field], <<",", " ">>) ELSE paperData[field]

Collapsed(text) == ReplaceAll(text, <<NL>>, <<" ">>)

\* C18: when the template is the token of one metadata field, the text
\* createFileWithTemplate has returned is the value of the field with every
\* newline replaced by a blank (the empty text when the field is absent).
C18_NewlinesCollapsed ==
    draft.state # "called" =>
        \A f \in MetadataFields :
            CurrentTemplate = Token(FieldChars[f])
            => draft.template = Collapsed(FieldText(draft.paperData, f))

====
